---- MODULE Spec2Model ----
(***************************************************************************)
(* Document signing server: the metadata store (Mongoose documents), the   *)
(* file store (uploads/ and signed_documents/), and the request handlers of *)
(* the two controllers of the repository:                                   *)
(*   "ts"  server/controllers/documentController.ts  (owner-only, a new     *)
(*         file per signature)                                              *)
(*   "js"  the sharing controller (documentController.js, part_002: share   *)
(*         grants, signer list, the PDF rewritten in place)                 *)
(* A deployment runs one of the two servers; variant says which.            *)
(* Every handler is split at the awaits at which it touches shared state    *)
(* (the database, the file system, the clock); the code between two such    *)
(* awaits is one atomic step.                                               *)
(***************************************************************************)
EXTENDS Integers, Sequences, FiniteSets, TLC

\* ---------------------------------------------------------------- bounds
MaxReqs == 2      \* requests in flight at the same time
MaxOps  == 4      \* requests received in one run
MaxDocs == 2      \* documents uploaded in one run
MaxTime == 2      \* last clock value (milliseconds of Date.now())

\* ------------------------------------------------------------- constants
Users == {"alice", "bob", "carol"}
\* The accounts that upload (which account owns a document changes nothing else).
Uploaders == {"alice"}
DocIds == 1..MaxDocs

UPLOADS_DIR == "uploads"
SIGNED_DOCS_DIR == "signed_documents"

StatusEnum == {"pending", "signed", "archived", "reviewed"}
PermissionEnum == {"view", "view_and_sign"}

\* The names a client gives its files (file.originalname).
OriginalNames == {[base |-> "contract", ext |-> ".pdf"]}

\* PDF bytes: whether they parse, the page count, the size of a page in PDF points
\* (targetPage.getWidth() / getHeight()), the signatures drawn.
PdfOfSize(n, w, h) == [ok |-> TRUE, pages |-> n, width |-> w, height |-> h, sigs |-> << >>]
Pdf(n) == PdfOfSize(n, 612, 792)
CorruptBytes == [ok |-> FALSE, pages |-> 0, width |-> 0, height |-> 0, sigs |-> << >>]
UploadedPdfs == {Pdf(2)}

NullDoc == [null |-> TRUE]
NullPdf == [null |-> TRUE]
NullBody == [null |-> TRUE]
NullPlacement == [null |-> TRUE]

NoResponse == [op |-> "", actor |-> "", id |-> 0, status |-> 0]

VARIABLES
    variant,   \* "ts" or "js": the server that is deployed
    docs,      \* metadata store: document id -> DocumentRecord
    files,     \* file store: path -> bytes
    reqs,      \* the requests in flight: each handler's position and locals
               \* (final: finalX and finalY as the signing handler leaves them)
    resp,      \* the response sent last
    now,       \* the clock (Date.now(), new Date())
    nextId,    \* ids (ObjectId) and upload suffixes handed out so far
    nOps       \* requests received so far

vars == <<variant, docs, files, reqs, resp, now, nextId, nOps>>

\* ------------------------------------------------------------ requests
\* A request as its handler starts: the authenticated user (req.user), the :id
\* parameter, the body. n numbers the requests in the order they arrive.
Arrived(op, a, id, body) ==
    [n |-> nOps + 1, op |-> op, pc |-> "start", actor |-> a, id |-> id, body |-> body,
     orig |-> NullDoc, doc |-> NullDoc, pdf |-> NullPdf, final |-> NullPlacement]

\* The response of request q: res.status(code).
Response(q, code) == [op |-> q.op, actor |-> q.actor, id |-> q.id, status |-> code]

\* A request arrives; its handler runs to its first await on shared state and goes
\* on as q2, or answers with code (q2.pc = "done").
Receive(q2, code) ==
    /\ nOps < MaxOps
    /\ Cardinality(reqs) < MaxReqs
    /\ nOps' = nOps + 1
    /\ IF q2.pc = "done"
       THEN reqs' = reqs /\ resp' = Response(q2, code)
       ELSE reqs' = reqs \cup {q2} /\ resp' = resp

\* Request q goes on as q2.
Continue(q, q2) ==
    /\ reqs' = (reqs \ {q}) \cup {q2}
    /\ resp' = resp

\* Request q answers with code and ends.
Respond(q, code) ==
    /\ reqs' = reqs \ {q}
    /\ resp' = Response(q, code)

Done(q) == [q EXCEPT !.pc = "done"]

\* --------------------------------------------------------------- numbers
\* The handlers compute placements with JavaScript numbers; the model computes
\* them exactly, as fractions n/d in lowest terms with d > 0.
RECURSIVE GCD(_, _)
GCD(a, b) == IF b = 0 THEN a ELSE GCD(b, a % b)

Abs(a) == IF a < 0 THEN -a ELSE a

Frac(n, d) ==
    LET g == GCD(Abs(n), Abs(d))
        sgn == IF d < 0 THEN -1 ELSE 1
    IN [n |-> sgn * (n \div g), d |-> sgn * (d \div g)]

Num(i) == [n |-> i, d |-> 1]
Mul(a, b) == Frac(a.n * b.n, a.d * b.d)
Div(a, b) == Frac(a.n * b.d, a.d * b.n)
Sub(a, b) == Frac(a.n * b.d - b.n * a.d, a.d * b.d)
Plus(a, b) == Frac(a.n * b.d + b.n * a.d, a.d * b.d)
Leq(a, b) == a.n * b.d <= b.n * a.d
\* Math.max / Math.min
Max(a, b) == IF Leq(a, b) THEN b ELSE a
Min(a, b) == IF Leq(a, b) THEN a ELSE b

\* --------------------------------------------------------------- helpers
\* path.extname / path.basename(name, ext) of an original name
extname(name) == name.ext
basename(name, ext) == IF name.ext = ext THEN name.base ELSE name.base \o name.ext

\* path.join(dir, fileName)
join(dir, fileName) == [dir |-> dir, name |-> fileName]

\* multer's diskStorage: destination uploads/, filename fieldname-<unique suffix><ext>
UploadFileName(originalname, suffix) ==
    [base |-> "document", tag |-> "-", tok |-> suffix, ext |-> extname(originalname)]

\* The file store without the file at path p.
Unlinked(p) == [x \in (DOMAIN files) \ {p} |-> files[x]]

\* The metadata store without the record id.
Removed(id) == [x \in (DOMAIN docs) \ {id} |-> docs[x]]

\* document.save() of a document whose modified paths are plain fields: Mongoose
\* sends a $set of the paths the handler changed, on the stored document with the
\* same _id.
SetModified(stored, orig, doc) ==
    [f \in DOMAIN stored |-> IF doc[f] # orig[f] THEN doc[f] ELSE stored[f]]

Init ==
    /\ variant \in {"ts", "js"}
    /\ docs = << >>
    /\ files = << >>
    /\ reqs = {}
    /\ resp = NoResponse
    /\ now = 1
    /\ nextId = 0
    /\ nOps = 0

\* The clock advances.
Tick ==
    /\ now < MaxTime
    /\ now' = now + 1
    /\ UNCHANGED <<variant, docs, files, reqs, resp, nextId, nOps>>

\* =========================================================================
\*   server/controllers/documentController.ts
\* =========================================================================

\* Document.create of uploadDocument
NewDocumentTs(a, originalname, filename) ==
    [user |-> a, fileName |-> filename, filePath |-> join(UPLOADS_DIR, filename),
     originalName |-> originalname, fileType |-> "application/pdf",
     status |-> "pending", lastSignedAt |-> 0]

\* POST /upload: multer has stored the file (or there is none: 400), the handler
\* creates the record.
uploadDocumentTs(a, originalname, bytes, hasFile) ==
    /\ variant = "ts"
    /\ IF ~hasFile
       THEN /\ Receive(Done(Arrived("upload", a, 0, NullBody)), 400)
            /\ UNCHANGED <<docs, files, nextId>>
       ELSE /\ nextId < MaxDocs
            /\ LET id == nextId + 1
                   filename == UploadFileName(originalname, id)
               IN /\ nextId' = id
                  /\ files' = (join(UPLOADS_DIR, filename) :> bytes) @@ files
                  /\ docs' = (id :> NewDocumentTs(a, originalname, filename)) @@ docs
                  /\ Receive(Done(Arrived("upload", a, id, NullBody)), 201)
    /\ UNCHANGED <<variant, now>>

\* req.body of POST /sign/:id. signatureData is absent (str = FALSE: missing, not a
\* string or blank) or a string: a data URL "data:image/<mime>;base64,<bytes>", or
\* any other text. decodes: whether pdf-lib can embed the decoded bytes as the
\* image type the prefix names.
DataUrl(mime, bytes, decodes) ==
    [str |-> TRUE, scheme |-> "data:image/", mime |-> mime, bytes |-> bytes,
     decodes |-> decodes]
PlainText(text) ==
    [str |-> TRUE, scheme |-> "", mime |-> "", bytes |-> text, decodes |-> FALSE]
NoData == [str |-> FALSE, scheme |-> "", mime |-> "", bytes |-> "", decodes |-> FALSE]

\* signaturePosition: {x, y} of the top-left corner in the client's viewport, or
\* not an object with numeric x and y (typed = FALSE).
Position(x, y) == [typed |-> TRUE, x |-> x, y |-> y]
NoPosition == [typed |-> FALSE, x |-> 0, y |-> 0]
\* pdfPageDimensions: {width, height} of the page as the client renders it.
Dimensions(w, h) == [typed |-> TRUE, width |-> w, height |-> h]
NoDimensions == [typed |-> FALSE, width |-> 0, height |-> 0]

SignBody(data, position, dimensions, page, type, extension) ==
    [signatureData |-> data, signaturePosition |-> position,
     pdfPageDimensions |-> dimensions,
     pageNumber |-> page, signatureType |-> type, signatureFileExtension |-> extension]

\* The request bodies the clients send: a drawn PNG at (50, 100) of a 300 x 400
\* viewport; a typed text in the bottom-right corner of a 1224 x 1584 viewport, on
\* page 2; a GIF declared as such; a PNG for page 3; a GIF data URL declared
\* "png"; a PNG data URL whose bytes are no PNG; a PNG dragged past the left edge
\* of the viewport; a body without signaturePosition; a PNG on a 60 x 30
\* viewport, which maps to an image wider and taller than the page.
SignBodiesTs ==
    { SignBody(DataUrl("png", "A", TRUE), Position(50, 100), Dimensions(300, 400),
               1, "draw", "png"),
      SignBody(PlainText("B"), Position(1124, 1560), Dimensions(1224, 1584),
               2, "text", ""),
      SignBody(DataUrl("gif", "C", TRUE), Position(50, 100), Dimensions(300, 400),
               1, "upload", "gif"),
      SignBody(DataUrl("png", "A", TRUE), Position(50, 100), Dimensions(300, 400),
               3, "draw", "png"),
      SignBody(DataUrl("gif", "C", TRUE), Position(50, 100), Dimensions(300, 400),
               1, "upload", "png"),
      SignBody(DataUrl("png", "D", FALSE), Position(50, 100), Dimensions(300, 400),
               1, "upload", "png"),
      SignBody(DataUrl("png", "A", TRUE), Position(-10, 390), Dimensions(300, 400),
               1, "draw", "png"),
      SignBody(DataUrl("png", "A", TRUE), NoPosition, Dimensions(300, 400),
               1, "draw", "png"),
      SignBody(DataUrl("png", "A", TRUE), Position(20, -5), Dimensions(60, 30),
               1, "draw", "png") }

\* The validation checks that precede the lookup: "ok" or the check that fails.
ValidateSignature(body) ==
    IF ~body.signatureData.str THEN "signatureData"
    ELSE IF ~body.signaturePosition.typed THEN "signaturePosition"
    ELSE IF ~body.pdfPageDimensions.typed
            \/ body.pdfPageDimensions.width <= 0
            \/ body.pdfPageDimensions.height <= 0 THEN "pdfPageDimensions"
    ELSE IF body.pageNumber < 1 THEN "pageNumber"
    ELSE IF body.signatureType \notin {"draw", "upload", "text"} THEN "signatureType"
    ELSE IF body.signatureType \in {"draw", "upload"}
            /\ body.signatureData.scheme # "data:image/" THEN "dataUrl"
    ELSE IF body.signatureType \in {"draw", "upload"}
            /\ body.signatureFileExtension \notin {"png", "jpeg", "jpg"}
         THEN "signatureFileExtension"
    ELSE "ok"

\* document.user.toString() === req.user._id.toString()
IsOwnerTs(doc, a) == doc.user = a

\* The lookup as it would be with the owner check first: document.user of the
\* null that findById returned throws a TypeError (500).
FindOutcomeOwnerCheckFirst(a, id) ==
    IF id \notin DOMAIN docs THEN 500
    ELSE IF docs[id].user # a THEN 403
    ELSE 0

\* The lookup as it would be without the owner check of lines 296-300.
FindOutcomeNoOwnerCheck(a, id) ==
    IF id \notin DOMAIN docs THEN 404 ELSE 0

\* findById and the owner check of a ts handler: 0 to go on, else the status.
FindOutcomeTs(a, id) ==
    IF id \notin DOMAIN docs THEN 404
    ELSE IF ~IsOwnerTs(docs[id], a) THEN 403
    ELSE 0

\* The request with the document findById returned.
Loaded(q, pc) == [q EXCEPT !.pc = pc, !.orig = docs[q.id], !.doc = docs[q.id]]

\* embeddedSignatureImage.width / .height: the size pdf-lib reads from the image.
ImageSize(bytes) == [width |-> 300, height |-> 150]
\* font.widthOfTextAtSize(signatureData, fontSize), font.heightAtSize(fontSize)
fontSize == 24
TextWidth(text) == Num(100)
TextHeight == Num(fontSize)
\* The width at which the client shows an image signature.
frontendDisplayWidth == 150

\* The placement the handler computes from the body and the page: scaleX, scaleY,
\* finalX, finalSignatureWidth, finalSignatureHeight, finalY, as passed to drawText
\* / drawImage.
Placement(pdf, body) ==
    LET pdfPageOriginalWidth == Num(pdf.width)
        pdfPageOriginalHeight == Num(pdf.height)
        scaleX == Div(pdfPageOriginalWidth, Num(body.pdfPageDimensions.width))
        scaleY == Div(pdfPageOriginalHeight, Num(body.pdfPageDimensions.height))
        finalX == Mul(Num(body.signaturePosition.x), scaleX)
        image == ImageSize(body.signatureData.bytes)
        frontendDisplayHeight ==
            Mul(Num(image.height), Div(Num(frontendDisplayWidth), Num(image.width)))
        finalSignatureWidth ==
            IF body.signatureType = "text" THEN TextWidth(body.signatureData.bytes)
            ELSE Mul(Num(frontendDisplayWidth), scaleX)
        finalSignatureHeight ==
            IF body.signatureType = "text" THEN TextHeight
            ELSE Mul(frontendDisplayHeight, scaleY)
        finalY == Sub(Sub(pdfPageOriginalHeight,
                          Mul(Num(body.signaturePosition.y), scaleY)),
                      finalSignatureHeight)
    IN [x |-> finalX, y |-> finalY,
        width |-> finalSignatureWidth, height |-> finalSignatureHeight]

\* The clamp with the two bounds applied in the other order: the upper bound
\* last.
ClampedUpperBoundLast(pdf, placement) ==
    [placement EXCEPT
        !.x = Min(Max(Num(0), @), Sub(Num(pdf.width), placement.width)),
        !.y = Min(Max(Num(0), @), Sub(Num(pdf.height), placement.height))]

\* The assignments that follow the draw: finalX and finalY clamped into the page.
\* Nothing reads them afterwards.
ClampedPlacement(pdf, placement) ==
    [placement EXCEPT
        !.x = Max(Num(0), Min(@, Sub(Num(pdf.width), placement.width))),
        !.y = Max(Num(0), Min(@, Sub(Num(pdf.height), placement.height)))]

\* A page's content after a draw call: what is drawn, on which page, where.
Drawn(pdf, data, page, at) ==
    [pdf EXCEPT !.sigs = Append(@, [data |-> data.bytes, page |-> page,
                                     x |-> at.x, y |-> at.y,
                                     width |-> at.width, height |-> at.height])]

\* targetPage.drawText / drawImage on page pageNumber of the loaded PDF.
DrawSignature(pdf, body) ==
    Drawn(pdf, body.signatureData, body.pageNumber, Placement(pdf, body))

\* POST /sign/:id: validation, Document.findById and the owner check.
applySignature_find(a, id, body) ==
    /\ variant = "ts"
    /\ LET q == Arrived("sign", a, id, body)
           code == IF ValidateSignature(body) # "ok" THEN 400 ELSE FindOutcomeTs(a, id)
       IN Receive(IF code = 0 THEN Loaded(q, "read") ELSE Done(q), code)
    /\ UNCHANGED <<variant, docs, files, now, nextId>>

\* The checks after the read as they would be without the safeguard of lines
\* 361-365 (the data URL's image type).
ReadOutcomeNoFormatCheck(q) ==
    LET p == q.doc.filePath
        body == q.body
    IN IF p \notin DOMAIN files THEN 500
       ELSE IF ~files[p].ok THEN 500
       ELSE IF body.pageNumber > files[p].pages THEN 400
       ELSE IF body.signatureType = "text" THEN 0
       ELSE IF ~body.signatureData.decodes THEN 500
       ELSE 0

\* What the handler answers once the file is read: 0 to go on, else the status.
ReadOutcomeTs(q) ==
    LET p == q.doc.filePath
        body == q.body
    IN IF p \notin DOMAIN files THEN 500                    \* fs.readFile rejects
       ELSE IF ~files[p].ok THEN 500                        \* PDFDocument.load rejects
       ELSE IF body.pageNumber > files[p].pages THEN 400    \* page out of bounds
       ELSE IF body.signatureType = "text" THEN 0
       ELSE IF body.signatureData.mime \notin {"png", "jpeg", "jpg"} THEN 400
       ELSE IF ~body.signatureData.decodes THEN 500         \* embedPng / embedJpg rejects
       ELSE 0

\* fs.readFile of the current version, PDFDocument.load, the draw, pdfDoc.save().
applySignature_read(q) ==
    /\ variant = "ts"
    /\ q.op = "sign" /\ q.pc = "read"
    /\ IF ReadOutcomeTs(q) # 0
       THEN Respond(q, ReadOutcomeTs(q))
       ELSE Continue(q, [q EXCEPT !.pc = "write",
                           !.pdf = DrawSignature(files[q.doc.filePath], q.body),
                           !.final = ClampedPlacement(files[q.doc.filePath],
                                        Placement(files[q.doc.filePath], q.body))])
    /\ UNCHANGED <<variant, docs, files, now, nextId, nOps>>

\* `${baseName}_signed_${Date.now()}.pdf`
NewFileName(originalName, t) ==
    [base |-> basename(originalName, extname(originalName)), tag |-> "_signed_",
     tok |-> t, ext |-> ".pdf"]

\* The assignments as they would be if the new name were built on the current
\* fileName in place of originalName.
MarkSignedFromFileName(doc, newFileName, t) ==
    LET name == [newFileName EXCEPT !.base = doc.fileName.base \o doc.fileName.tag]
    IN [doc EXCEPT !.filePath = join(SIGNED_DOCS_DIR, name),
                   !.fileName = name,
                   !.status = "signed",
                   !.lastSignedAt = t]

\* The handler's assignments to the loaded document once the file is written.
MarkSignedTs(doc, newFileName, t) ==
    [doc EXCEPT !.filePath = join(SIGNED_DOCS_DIR, newFileName),
                !.fileName = newFileName,
                !.status = "signed",
                !.lastSignedAt = t]

\* fs.writeFile / fs.writeFileSync: it succeeds, or it fails having written
\* nothing, or it fails having left a truncated file.
WriteOutcomes == {"written", "rejected", "truncated"}

\* The file store after a write of bytes to path p with that outcome.
Written(p, bytes, outcome) ==
    CASE outcome = "written" -> (p :> bytes) @@ files
      [] outcome = "rejected" -> files
      [] outcome = "truncated" -> (p :> CorruptBytes) @@ files

\* The write step as it would be if the record were saved as the write is started,
\* before its outcome is known.
applySignature_write_early(q, outcome) ==
    /\ variant = "ts"
    /\ q.op = "sign" /\ q.pc = "write"
    /\ LET newFileName == NewFileName(q.doc.originalName, now)
           newFilePath == join(SIGNED_DOCS_DIR, newFileName)
       IN /\ files' = Written(newFilePath, q.pdf, outcome)
          /\ docs' = IF q.id \in DOMAIN docs
                     THEN [docs EXCEPT ![q.id] =
                             SetModified(@, q.orig, MarkSignedTs(q.doc, newFileName, now))]
                     ELSE docs
          /\ IF outcome = "written"
             THEN Continue(q, [q EXCEPT !.pc = "save", !.pdf = NullPdf,
                                        !.doc = MarkSignedTs(q.doc, newFileName, now)])
             ELSE Respond(q, 500)
    /\ UNCHANGED <<variant, now, nextId, nOps>>

\* Date.now() names the new file, fs.writeFile(newFilePath, modifiedPdfBytes), and
\* on success the assignments to the loaded document.
applySignature_write(q, outcome) ==
    /\ variant = "ts"
    /\ q.op = "sign" /\ q.pc = "write"
    /\ LET newFileName == NewFileName(q.doc.originalName, now)
           newFilePath == join(SIGNED_DOCS_DIR, newFileName)
       IN /\ files' = Written(newFilePath, q.pdf, outcome)
          /\ IF outcome = "written"
             THEN Continue(q, [q EXCEPT !.pc = "save", !.pdf = NullPdf,
                                        !.doc = MarkSignedTs(q.doc, newFileName, now)])
             ELSE Respond(q, 500)
    /\ UNCHANGED <<variant, docs, now, nextId, nOps>>

\* The save as it would be if it stored the whole document under its _id
\* (an upsert).
applySignature_save_upsert(q, dbOk) ==
    /\ variant = "ts"
    /\ q.op = "sign" /\ q.pc = "save"
    /\ IF dbOk
       THEN /\ docs' = (q.id :> q.doc) @@ docs
            /\ Respond(q, 200)
       ELSE /\ docs' = docs
            /\ Respond(q, 500)
    /\ UNCHANGED <<variant, files, now, nextId, nOps>>

\* document.save(): the update reaches the store, or the store rejects it, or no
\* stored document has this _id any more (DocumentNotFoundError).
applySignature_save(q, dbOk) ==
    /\ variant = "ts"
    /\ q.op = "sign" /\ q.pc = "save"
    /\ IF dbOk /\ q.id \in DOMAIN docs
       THEN /\ docs' = [docs EXCEPT ![q.id] = SetModified(@, q.orig, q.doc)]
            /\ Respond(q, 200)
       ELSE /\ docs' = docs
            /\ Respond(q, 500)
    /\ UNCHANGED <<variant, files, now, nextId, nOps>>

\* GET /:id: Document.findById, the owner check, the metadata.
getDocumentByIdTs(a, id) ==
    /\ variant = "ts"
    /\ LET code == FindOutcomeTs(a, id)
       IN Receive(Done(Arrived("get", a, id, NullBody)), IF code = 0 THEN 200 ELSE code)
    /\ UNCHANGED <<variant, docs, files, now, nextId>>

\* GET /view/:id: Document.findById and the owner check.
viewDocument_find(a, id) ==
    /\ variant = "ts"
    /\ LET q == Arrived("view", a, id, NullBody)
           code == FindOutcomeTs(a, id)
       IN Receive(IF code = 0 THEN Loaded(q, "access") ELSE Done(q), code)
    /\ UNCHANGED <<variant, docs, files, now, nextId>>

\* fs.access(filePathToServe), then res.sendFile or 'File not found on server.'
viewDocument_access(q) ==
    /\ variant = "ts"
    /\ q.op = "view" /\ q.pc = "access"
    /\ Respond(q, IF q.doc.filePath \in DOMAIN files THEN 200 ELSE 404)
    /\ UNCHANGED <<variant, docs, files, now, nextId, nOps>>

\* DELETE /:id: Document.findById and the owner check.
deleteDocumentTs_find(a, id) ==
    /\ variant = "ts"
    /\ LET q == Arrived("delete", a, id, NullBody)
           code == FindOutcomeTs(a, id)
       IN Receive(IF code = 0 THEN Loaded(q, "unlink") ELSE Done(q), code)
    /\ UNCHANGED <<variant, docs, files, now, nextId>>

\* fs.access and fs.unlink of document.filePath: the file is removed, or the call
\* rejects (ENOENT when it is missing, another error when it cannot be removed);
\* the handler logs the error and goes on.
deleteDocumentTs_unlink(q, removed) ==
    /\ variant = "ts"
    /\ q.op = "delete" /\ q.pc = "unlink"
    /\ files' = IF removed /\ q.doc.filePath \in DOMAIN files
                THEN Unlinked(q.doc.filePath) ELSE files
    /\ Continue(q, [q EXCEPT !.pc = "deleteOne"])
    /\ UNCHANGED <<variant, docs, now, nextId, nOps>>

\* Document.deleteOne({ _id }): it removes the record (if still stored) or rejects.
deleteDocumentTs_deleteOne(q, dbOk) ==
    /\ variant = "ts"
    /\ q.op = "delete" /\ q.pc = "deleteOne"
    /\ IF dbOk
       THEN docs' = Removed(q.id) /\ Respond(q, 200)
       ELSE docs' = docs /\ Respond(q, 500)
    /\ UNCHANGED <<variant, files, now, nextId, nOps>>

\* req.body.status of PUT /:id: a status of the enum, none (""), or another string.
StatusInputs == StatusEnum \cup {"", "rejected"}

\* The assignment as it would be if the handler took the record's type from the
\* request as well.
UpdatedStatusAndType(doc, status) ==
    [doc EXCEPT !.status = IF status = "" THEN @ ELSE status,
                !.fileType = "application/octet-stream"]

\* document.status = req.body.status || document.status
UpdatedStatus(doc, status) == [doc EXCEPT !.status = IF status = "" THEN @ ELSE status]

\* PUT /:id: Document.findById, the owner check, the assignment.
updateDocument_find(a, id, status) ==
    /\ variant = "ts"
    /\ LET q == Arrived("update", a, id, NullBody)
           code == FindOutcomeTs(a, id)
       IN Receive(IF code = 0
                  THEN [Loaded(q, "save") EXCEPT !.doc = UpdatedStatus(docs[id], status)]
                  ELSE Done(q), code)
    /\ UNCHANGED <<variant, docs, files, now, nextId>>

\* document.save(): the schema's enum validator rejects a status outside the enum;
\* else the update reaches the store, unless the store rejects it or the record is gone.
updateDocument_save(q, dbOk) ==
    /\ variant = "ts"
    /\ q.op = "update" /\ q.pc = "save"
    /\ IF dbOk /\ q.id \in DOMAIN docs /\ q.doc.status \in StatusEnum
       THEN /\ docs' = [docs EXCEPT ![q.id] = SetModified(@, q.orig, q.doc)]
            /\ Respond(q, 200)
       ELSE /\ docs' = docs
            /\ Respond(q, 500)
    /\ UNCHANGED <<variant, files, now, nextId, nOps>>

NextTs ==
    \/ \E a \in Uploaders, n \in OriginalNames, b \in UploadedPdfs, h \in BOOLEAN :
          uploadDocumentTs(a, n, b, h)
    \/ \E a \in Users, id \in DocIds, body \in SignBodiesTs : applySignature_find(a, id, body)
    \/ \E q \in reqs : applySignature_read(q)
    \/ \E q \in reqs, o \in WriteOutcomes : applySignature_write(q, o)
    \/ \E q \in reqs, ok \in BOOLEAN : applySignature_save(q, ok)
    \/ \E a \in Users, id \in DocIds : getDocumentByIdTs(a, id)
    \/ \E a \in Users, id \in DocIds : viewDocument_find(a, id)
    \/ \E q \in reqs : viewDocument_access(q)
    \/ \E a \in Users, id \in DocIds : deleteDocumentTs_find(a, id)
    \/ \E q \in reqs, rm \in BOOLEAN : deleteDocumentTs_unlink(q, rm)
    \/ \E q \in reqs, ok \in BOOLEAN : deleteDocumentTs_deleteOne(q, ok)
    \/ \E a \in Users, id \in DocIds, st \in StatusInputs : updateDocument_find(a, id, st)
    \/ \E q \in reqs, ok \in BOOLEAN : updateDocument_save(q, ok)

\* =========================================================================
\*   the sharing controller (part_002) and models/documentModel.js
\* =========================================================================

\* Document.create of uploadDocument; v is Mongoose's version key __v.
NewDocumentJs(a, originalname, filename) ==
    [owner |-> a, originalName |-> originalname, fileName |-> filename,
     filePath |-> join(UPLOADS_DIR, filename), status |-> "pending",
     sharedWith |-> << >>, signedBy |-> << >>, v |-> 0]

\* POST /upload
uploadDocumentJs(a, originalname, bytes, hasFile) ==
    /\ variant = "js"
    /\ IF ~hasFile
       THEN /\ Receive(Done(Arrived("upload", a, 0, NullBody)), 400)
            /\ UNCHANGED <<docs, files, nextId>>
       ELSE /\ nextId < MaxDocs
            /\ LET id == nextId + 1
                   filename == UploadFileName(originalname, id)
               IN /\ nextId' = id
                  /\ files' = (join(UPLOADS_DIR, filename) :> bytes) @@ files
                  /\ docs' = (id :> NewDocumentJs(a, originalname, filename)) @@ docs
                  /\ Receive(Done(Arrived("upload", a, id, NullBody)), 201)
    /\ UNCHANGED <<variant, now>>

\* document.owner.equals(req.user._id)
IsOwnerJs(doc, a) == doc.owner = a

\* document.sharedWith.some(share => share.user.equals(req.user._id))
IsSharedWith(doc, a) == \E i \in 1..Len(doc.sharedWith) : doc.sharedWith[i].user = a

\* hasAccess as it would be if a grant gave access only until the document is
\* signed.
HasAccessWhilePending(doc, a) ==
    IsOwnerJs(doc, a) \/ (IsSharedWith(doc, a) /\ doc.status = "pending")

\* hasAccess of getDocumentById, getDocumentContent and downloadDocument
HasAccess(doc, a) == IsOwnerJs(doc, a) \/ IsSharedWith(doc, a)

\* The permission check as it would be if any share grant let the grantee sign.
HasAnyPermission(doc, a) ==
    \E i \in 1..Len(doc.sharedWith) : doc.sharedWith[i].user = a

\* hasSignPermission of applySignatures
HasSignPermission(doc, a) ==
    \E i \in 1..Len(doc.sharedWith) :
        doc.sharedWith[i].user = a /\ doc.sharedWith[i].permission = "view_and_sign"

\* GET /:id
getDocumentByIdJs(a, id) ==
    /\ variant = "js"
    /\ LET code == IF id \notin DOMAIN docs THEN 404
                   ELSE IF ~HasAccess(docs[id], a) THEN 403 ELSE 200
       IN Receive(Done(Arrived("get", a, id, NullBody)), code)
    /\ UNCHANGED <<variant, docs, files, now, nextId>>

\* path.resolve(__dirname, '../../uploads', document.fileName)
absoluteFilePath(doc) == join(UPLOADS_DIR, doc.fileName)

\* findById, hasAccess and fs.existsSync of getDocumentContent and downloadDocument
ContentOutcome(a, id) ==
    IF id \notin DOMAIN docs THEN 404
    ELSE IF ~HasAccess(docs[id], a) THEN 403
    ELSE IF absoluteFilePath(docs[id]) \in DOMAIN files THEN 200
    ELSE 404

\* GET /:id/content
getDocumentContent(a, id) ==
    /\ variant = "js"
    /\ Receive(Done(Arrived("content", a, id, NullBody)), ContentOutcome(a, id))
    /\ UNCHANGED <<variant, docs, files, now, nextId>>

\* GET /:id/download
downloadDocument(a, id) ==
    /\ variant = "js"
    /\ Receive(Done(Arrived("download", a, id, NullBody)), ContentOutcome(a, id))
    /\ UNCHANGED <<variant, docs, files, now, nextId>>

\* DELETE /:id: findById, the owner check, fs.unlink is called.
deleteDocumentJs_find(a, id) ==
    /\ variant = "js"
    /\ LET q == Arrived("delete", a, id, NullBody)
           code == IF id \notin DOMAIN docs THEN 404
                   ELSE IF ~IsOwnerJs(docs[id], a) THEN 403 ELSE 0
       IN Receive(IF code = 0 THEN Loaded(q, "unlink") ELSE Done(q), code)
    /\ UNCHANGED <<variant, docs, files, now, nextId>>

\* fs.unlink's callback: the file is removed, or err is logged; deleteOne is called.
deleteDocumentJs_unlink(q, removed) ==
    /\ variant = "js"
    /\ q.op = "delete" /\ q.pc = "unlink"
    /\ files' = IF removed /\ q.doc.filePath \in DOMAIN files
                THEN Unlinked(q.doc.filePath) ELSE files
    /\ Continue(q, [q EXCEPT !.pc = "deleteOne"])
    /\ UNCHANGED <<variant, docs, now, nextId, nOps>>

\* Document.deleteOne({ _id: req.params.id }) in the callback; when it rejects the
\* callback's promise is dropped and no response is sent (status 0).
deleteDocumentJs_deleteOne(q, dbOk) ==
    /\ variant = "js"
    /\ q.op = "delete" /\ q.pc = "deleteOne"
    /\ IF dbOk
       THEN docs' = Removed(q.id) /\ Respond(q, 200)
       ELSE docs' = docs /\ Respond(q, 0)
    /\ UNCHANGED <<variant, files, now, nextId, nOps>>

\* req.body of PUT /:id/share: the e-mail of an account, or of none; a permission.
Emails == Users \cup {"nobody"}
PermissionInputs == PermissionEnum

\* The change of sharedWith as it would be without the isAlreadyShared branch: an
\* entry is pushed for every share.
SharedAlwaysPushed(doc, grantee, permission) ==
    [doc EXCEPT !.sharedWith = Append(@, [user |-> grantee, permission |-> permission])]

\* The loaded document after the handler's change of sharedWith: the grantee's
\* entry replaced (map) when there is one, else a new entry pushed.
Shared(doc, grantee, permission) ==
    IF IsSharedWith(doc, grantee)
    THEN [doc EXCEPT !.sharedWith =
            [i \in 1..Len(@) |-> IF @[i].user = grantee
                                 THEN [user |-> grantee, permission |-> permission]
                                 ELSE @[i]]]
    ELSE [doc EXCEPT !.sharedWith =
            Append(@, [user |-> grantee, permission |-> permission])]

\* The share request as it would arrive without the self-share check of lines
\* 221-225.
shareDocument_find_noSelfCheck(a, id, shareWithEmail, permission) ==
    /\ variant = "js"
    /\ LET q == Arrived("share", a, id,
                        [shareWithEmail |-> shareWithEmail, permission |-> permission])
           code == IF id \notin DOMAIN docs THEN 404
                   ELSE IF ~IsOwnerJs(docs[id], a) THEN 403
                   ELSE IF shareWithEmail \notin Users THEN 404
                   ELSE 0
       IN Receive(IF code = 0
                  THEN [Loaded(q, "save") EXCEPT
                           !.doc = Shared(docs[id], shareWithEmail, permission)]
                  ELSE Done(q), code)
    /\ UNCHANGED <<variant, docs, files, now, nextId>>

\* PUT /:id/share: findById, the owner check, User.findOne, the self-share check,
\* the change of sharedWith on the loaded document.
shareDocument_find(a, id, shareWithEmail, permission) ==
    /\ variant = "js"
    /\ LET q == Arrived("share", a, id,
                        [shareWithEmail |-> shareWithEmail, permission |-> permission])
           code == IF id \notin DOMAIN docs THEN 404
                   ELSE IF ~IsOwnerJs(docs[id], a) THEN 403
                   ELSE IF shareWithEmail \notin Users THEN 404
                   ELSE IF shareWithEmail = a THEN 400
                   ELSE 0
       IN Receive(IF code = 0
                  THEN [Loaded(q, "save") EXCEPT
                           !.doc = Shared(docs[id], shareWithEmail, permission)]
                  ELSE Done(q), code)
    /\ UNCHANGED <<variant, docs, files, now, nextId>>

\* What document.save() does to a stored array path, from what the handler did to
\* the loaded array (Mongoose's atomics and version key):
\*   "none"  the path is not modified
\*   "push"  an element was pushed: $push, and __v is incremented
\*   "set"   the array was assigned: $set of the whole array, where __v is the
\*           loaded one, and __v is incremented
\*   "elem"  fields of an element were assigned: $set of those fields by position,
\*           where __v is the loaded one
\* shareDocument pushes an entry or assigns the mapped array.
ShareOp(q) ==
    IF Len(q.doc.sharedWith) = Len(q.orig.sharedWith) + 1 THEN "push" ELSE "set"

\* applySignatures pushes an entry or assigns signedAt and signatureImage of the
\* signer's entry (an assignment of an equal value modifies nothing).
SignedByOp(q) ==
    IF Len(q.doc.signedBy) = Len(q.orig.signedBy) + 1 THEN "push"
    ELSE IF q.doc.signedBy = q.orig.signedBy THEN "none"
    ELSE "elem"

\* The stored array after the update op of a save; "elem" sets, by position, the
\* fields of the entries that the handler changed.
SavedArray(storedArr, origArr, docArr, op) ==
    CASE op = "none" -> storedArr
      [] op = "push" -> Append(storedArr, docArr[Len(docArr)])
      [] op = "set"  -> docArr
      [] op = "elem" ->
           [i \in 1..Len(storedArr) |->
              IF i <= Len(docArr) /\ i <= Len(origArr)
              THEN [f \in DOMAIN storedArr[i] |->
                      IF docArr[i][f] # origArr[i][f] THEN docArr[i][f]
                      ELSE storedArr[i][f]]
              ELSE storedArr[i]]

\* Whether the save's where clause names the loaded __v.
ChecksVersion(op) == op \in {"set", "elem"}
\* Whether the save increments __v.
IncrementsVersion(op) == op \in {"push", "set"}

\* document.save() of shareDocument: 0 and the stored document, or the error.
ShareSaveOutcome(stored, q) ==
    LET op == ShareOp(q)
    IN IF ChecksVersion(op) /\ stored.v # q.orig.v THEN 500   \* VersionError
       ELSE 0

ShareSaved(stored, q) ==
    LET op == ShareOp(q)
    IN [stored EXCEPT !.sharedWith = SavedArray(@, q.orig.sharedWith, q.doc.sharedWith, op),
                      !.v = IF IncrementsVersion(op) THEN @ + 1 ELSE @]

shareDocument_save(q, dbOk) ==
    /\ variant = "js"
    /\ q.op = "share" /\ q.pc = "save"
    /\ IF dbOk /\ q.id \in DOMAIN docs /\ ShareSaveOutcome(docs[q.id], q) = 0
       THEN /\ docs' = [docs EXCEPT ![q.id] = ShareSaved(@, q)]
            /\ Respond(q, 200)
       ELSE /\ docs' = docs
            /\ Respond(q, 500)
    /\ UNCHANGED <<variant, files, now, nextId, nOps>>

\* req.body.signature of POST /:id/sign
SignaturesJs ==
    { DataUrl("png", "A", TRUE), DataUrl("jpeg", "B", TRUE), DataUrl("gif", "C", TRUE),
      NoData }

\* req.body of POST /:id/sign: the handler reads signature and nothing else; a
\* client that means page 2 says so in vain.
SignBodiesJs ==
    { [signature |-> sg, pageNumber |-> IF sg.bytes = "B" THEN 2 ELSE 1] :
          sg \in SignaturesJs }

\* The try block up to pdfDoc.save(): fs.readFileSync(document.filePath),
\* PDFDocument.load, embedPng / embedJpg. Every throw ends in the catch: 500.
ReadOutcomeJs(doc, signature) ==
    LET p == doc.filePath
    IN IF p \notin DOMAIN files THEN 500
       ELSE IF ~files[p].ok THEN 500
       ELSE IF signature.scheme # "data:image/"
               \/ signature.mime \notin {"png", "jpeg", "jpg"} THEN 500
       ELSE IF ~signature.decodes THEN 500
       ELSE 0

\* The sizes of the image as applySignatures draws it.
signatureWidth == 250
signatureHeight == 125

\* firstPage.drawImage in the centre of the first page.
DrawCentred(pdf, signature) ==
    Drawn(pdf, signature, 1,
          [x |-> Sub(Div(Num(pdf.width), Num(2)), Div(Num(signatureWidth), Num(2))),
           y |-> Sub(Div(Num(pdf.height), Num(2)), Div(Num(signatureHeight), Num(2))),
           width |-> Num(signatureWidth), height |-> Num(signatureHeight)])

\* POST /:id/sign: the signature check, findById, the permission check, and the
\* synchronous read of the file with the draw on the first page.
applySignatures_find(a, id, body) ==
    /\ variant = "js"
    /\ LET signature == body.signature
           q == Arrived("sign", a, id, body)
           code == IF ~signature.str THEN 400
                   ELSE IF id \notin DOMAIN docs THEN 404
                   ELSE IF ~IsOwnerJs(docs[id], a) /\ ~HasSignPermission(docs[id], a)
                        THEN 403
                   ELSE ReadOutcomeJs(docs[id], signature)
       IN Receive(IF code = 0
                  THEN [Loaded(q, "write") EXCEPT
                           !.pdf = DrawCentred(files[docs[id].filePath], signature)]
                  ELSE Done(q), code)
    /\ UNCHANGED <<variant, docs, files, now, nextId>>

\* The loaded document after the handler's updates: status, and the signer's entry
\* of signedBy updated in place or pushed.
MarkSignedJs(doc, userId, signature, t) ==
    LET entry == [user |-> userId, signedAt |-> t, signatureImage |-> signature.bytes]
    IN IF \E i \in 1..Len(doc.signedBy) : doc.signedBy[i].user = userId
       THEN LET existingSignatureIndex ==
                    CHOOSE i \in 1..Len(doc.signedBy) :
                        /\ doc.signedBy[i].user = userId
                        /\ \A j \in 1..(i - 1) : doc.signedBy[j].user # userId
            IN [doc EXCEPT !.status = "signed",
                           !.signedBy[existingSignatureIndex] = entry]
       ELSE [doc EXCEPT !.status = "signed", !.signedBy = Append(@, entry)]

\* fs.writeFileSync(document.filePath, modifiedPdfBytes) and, when it returns, the
\* updates of the loaded document.
applySignatures_write(q, outcome) ==
    /\ variant = "js"
    /\ q.op = "sign" /\ q.pc = "write"
    /\ files' = Written(q.doc.filePath, q.pdf, outcome)
    /\ IF outcome = "written"
       THEN Continue(q, [q EXCEPT !.pc = "save", !.pdf = NullPdf,
                                  !.doc = MarkSignedJs(q.doc, q.actor, q.body.signature, now)])
       ELSE Respond(q, 500)
    /\ UNCHANGED <<variant, docs, now, nextId, nOps>>

\* document.save() of applySignatures: 0, or the error.
SignSaveOutcome(stored, q) ==
    IF ChecksVersion(SignedByOp(q)) /\ stored.v # q.orig.v THEN 500   \* VersionError
    ELSE 0

SignSaved(stored, q) ==
    LET op == SignedByOp(q)
    IN [stored EXCEPT !.status = IF q.doc.status # q.orig.status THEN q.doc.status ELSE @,
                      !.signedBy = SavedArray(@, q.orig.signedBy, q.doc.signedBy, op),
                      !.v = IF IncrementsVersion(op) THEN @ + 1 ELSE @]

applySignatures_save(q, dbOk) ==
    /\ variant = "js"
    /\ q.op = "sign" /\ q.pc = "save"
    /\ IF dbOk /\ q.id \in DOMAIN docs /\ SignSaveOutcome(docs[q.id], q) = 0
       THEN /\ docs' = [docs EXCEPT ![q.id] = SignSaved(@, q)]
            /\ Respond(q, 200)
       ELSE /\ docs' = docs
            /\ Respond(q, 500)
    /\ UNCHANGED <<variant, files, now, nextId, nOps>>

NextJs ==
    \/ \E a \in Uploaders, n \in OriginalNames, b \in UploadedPdfs, h \in BOOLEAN :
          uploadDocumentJs(a, n, b, h)
    \/ \E a \in Users, id \in DocIds : getDocumentByIdJs(a, id)
    \/ \E a \in Users, id \in DocIds : getDocumentContent(a, id)
    \/ \E a \in Users, id \in DocIds : downloadDocument(a, id)
    \/ \E a \in Users, id \in DocIds : deleteDocumentJs_find(a, id)
    \/ \E q \in reqs, rm \in BOOLEAN : deleteDocumentJs_unlink(q, rm)
    \/ \E q \in reqs, ok \in BOOLEAN : deleteDocumentJs_deleteOne(q, ok)
    \/ \E a \in Users, id \in DocIds, e \in Emails, p \in PermissionInputs :
          shareDocument_find(a, id, e, p)
    \/ \E q \in reqs, ok \in BOOLEAN : shareDocument_save(q, ok)
    \/ \E a \in Users, id \in DocIds, b \in SignBodiesJs : applySignatures_find(a, id, b)
    \/ \E q \in reqs, o \in WriteOutcomes : applySignatures_write(q, o)
    \/ \E q \in reqs, ok \in BOOLEAN : applySignatures_save(q, ok)

Next ==
    \/ Tick
    \/ NextTs
    \/ NextJs

Spec == Init /\ [][Next]_vars

\* ----- a run of the owner's requests on two stored documents
\* The server of documentController.ts once alice has uploaded contract.pdf twice;
\* requests are counted from here.
InitStored ==
    LET name == CHOOSE n \in OriginalNames : TRUE
        bytes == CHOOSE b \in UploadedPdfs : TRUE
    IN /\ variant = "ts"
       /\ docs = [id \in 1..MaxDocs |->
                    NewDocumentTs("alice", name, UploadFileName(name, id))]
       /\ files = [p \in {join(UPLOADS_DIR, UploadFileName(name, id)) : id \in 1..MaxDocs}
                     |-> bytes]
       /\ reqs = {}
       /\ resp = [op |-> "upload", actor |-> "alice", id |-> MaxDocs, status |-> 201]
       /\ now = 1
       /\ nextId = MaxDocs
       /\ nOps = 0

\* The body of the owner's sign requests in such a run.
StoredSignBodies ==
    { SignBody(DataUrl("png", "A", TRUE), Position(50, 100), Dimensions(300, 400),
               1, "draw", "png") }

\* The owner signs and deletes.
NextStored ==
    \/ Tick
    \/ \E id \in DocIds, body \in StoredSignBodies : applySignature_find("alice", id, body)
    \/ \E q \in reqs : applySignature_read(q)
    \/ \E q \in reqs, o \in WriteOutcomes : applySignature_write(q, o)
    \/ \E q \in reqs, ok \in BOOLEAN : applySignature_save(q, ok)
    \/ \E id \in DocIds : deleteDocumentTs_find("alice", id)
    \/ \E q \in reqs, rm \in BOOLEAN : deleteDocumentTs_unlink(q, rm)
    \/ \E q \in reqs, ok \in BOOLEAN : deleteDocumentTs_deleteOne(q, ok)

SpecStored == InitStored /\ [][NextStored]_vars

\* ----- sign requests sent one after the other on each document
\* No request on document id is being handled.
NoRequestOn(id) == \A q \in reqs : q.id # id

\* Uploads and sign requests on documentController.ts, a sign request on a
\* document arriving once the one before it on that document was answered;
\* requests on different documents overlap.
NextSequential ==
    \/ Tick
    \/ \E a \in Uploaders, n \in OriginalNames, b \in UploadedPdfs, h \in BOOLEAN :
          uploadDocumentTs(a, n, b, h)
    \/ \E a \in Users, id \in DocIds, body \in SignBodiesTs :
          NoRequestOn(id) /\ applySignature_find(a, id, body)
    \/ \E q \in reqs : applySignature_read(q)
    \/ \E q \in reqs, o \in WriteOutcomes : applySignature_write(q, o)
    \/ \E q \in reqs, ok \in BOOLEAN : applySignature_save(q, ok)

SpecSequential == Init /\ [][NextSequential]_vars

\* ----- requests that are not authenticated (middleware/authMiddleware: protect)
\* The Authorization header of such a request: none (or not a Bearer one), a
\* token jwt.verify rejects, or a token that verifies and whose user
\* User.findById no longer finds (req.user = null).
RejectedTokens == {"none", "bad"}
\* req.user of a request that is not authenticated.
Nobody == "nobody"
\* The operations behind protect other than upload.
ProtectedOps == {"list", "get", "view", "content", "download", "update", "share",
                 "delete", "sign"}
OpsTs == {"list", "get", "view", "update", "delete", "sign"}
OpsJs == {"list", "get", "content", "download", "share", "delete", "sign"}

\* protect: no token, or jwt.verify throws: 401, next() is not called.
protect_rejects(op, id, token) ==
    /\ token \in RejectedTokens
    /\ op \in (IF variant = "ts" THEN OpsTs ELSE OpsJs) \cup {"upload"}
    /\ Receive(Done(Arrived(op, Nobody, id, NullBody)), 401)
    /\ UNCHANGED <<variant, docs, files, now, nextId>>

\* POST /upload with a token whose user is gone: protect sets req.user = null and
\* calls next(); upload.single stores the file; the handler answers 400 without a
\* file, else 401 (documentController.ts: !req.user) or 500 (the sharing
\* controller: req.user._id of null).
uploadDocument_noUser(originalname, bytes, hasFile) ==
    /\ IF ~hasFile
       THEN /\ Receive(Done(Arrived("upload", Nobody, 0, NullBody)), 400)
            /\ UNCHANGED <<files, nextId>>
       ELSE /\ nextId < MaxDocs
            /\ LET suffix == nextId + 1
                   filename == UploadFileName(originalname, suffix)
               IN /\ nextId' = suffix
                  /\ files' = (join(UPLOADS_DIR, filename) :> bytes) @@ files
                  /\ Receive(Done(Arrived("upload", Nobody, 0, NullBody)),
                             IF variant = "ts" THEN 401 ELSE 500)
    /\ UNCHANGED <<variant, docs, now>>

\* The other handlers of documentController.ts with req.user = null: 401 at once.
handlerTs_noUser(op, id) ==
    /\ variant = "ts" /\ op \in OpsTs
    /\ Receive(Done(Arrived(op, Nobody, id, NullBody)), 401)
    /\ UNCHANGED <<variant, docs, files, now, nextId>>

\* The other handlers of the sharing controller with req.user = null: findById
\* (404 without a record), then req.user._id of null throws (500); the list
\* handlers throw at once.
handlerJs_noUser(op, id) ==
    /\ variant = "js" /\ op \in OpsJs
    /\ Receive(Done(Arrived(op, Nobody, id, NullBody)),
               IF op # "list" /\ id \notin DOMAIN docs THEN 404 ELSE 500)
    /\ UNCHANGED <<variant, docs, files, now, nextId>>

\* Uploads of the accounts, and requests that are not authenticated.
NextAuth ==
    \/ \E a \in Uploaders, n \in OriginalNames, b \in UploadedPdfs, h \in BOOLEAN :
          uploadDocumentTs(a, n, b, h)
    \/ \E a \in Uploaders, n \in OriginalNames, b \in UploadedPdfs, h \in BOOLEAN :
          uploadDocumentJs(a, n, b, h)
    \/ \E op \in ProtectedOps \cup {"upload"}, id \in DocIds, t \in RejectedTokens :
          protect_rejects(op, id, t)
    \/ \E n \in OriginalNames, b \in UploadedPdfs, h \in BOOLEAN :
          uploadDocument_noUser(n, b, h)
    \/ \E op \in ProtectedOps, id \in DocIds : handlerTs_noUser(op, id)
    \/ \E op \in ProtectedOps, id \in DocIds : handlerJs_noUser(op, id)

SpecAuth == Init /\ [][NextAuth]_vars

\* =========================================================================
\*   Properties
\* =========================================================================

\* ----- the vocabulary of the specification (spec.md, sections 3 and 4.1)
Owner(doc) == IF variant = "ts" THEN doc.user ELSE doc.owner
\* The ShareGrant list, the SignatureEntry list and the last-signed timestamp of a
\* record; a field the deployed schema does not have holds nothing.
Grants(doc) == IF variant = "js" THEN doc.sharedWith ELSE << >>
Signers(doc) == IF variant = "js" THEN doc.signedBy ELSE << >>
LastSignedAt(doc) == IF variant = "ts" THEN doc.lastSignedAt ELSE 0

\* The Access Control Gate's role of actor a on a document.
Role(doc, a) ==
    IF Owner(doc) = a THEN "Owner"
    ELSE IF \E i \in 1..Len(Grants(doc)) :
               Grants(doc)[i].user = a /\ Grants(doc)[i].permission = "view_and_sign"
         THEN "SharedSign"
    ELSE IF \E i \in 1..Len(Grants(doc)) :
               Grants(doc)[i].user = a /\ Grants(doc)[i].permission = "view"
         THEN "SharedView"
    ELSE "Denied"

\* ----- steps
\* This step receives a request.
Arrival == nOps' = nOps + 1
\* The request this step receives: in flight after the step, or answered by it.
TheArrived == IF reqs' = reqs THEN resp' ELSE CHOOSE q \in reqs' \ reqs : TRUE
\* The received request is answered in this step, with this status.
AnsweredAtOnce(code) == reqs' = reqs /\ resp'.status = code
\* This step is a step of the request q in flight.
StepOf(q) == q \in reqs /\ q \notin reqs'
\* The step of q takes it to position pc.
GoesTo(q, pc) == StepOf(q) /\ \E q2 \in reqs' : q2.n = q.n /\ q2.pc = pc
\* The step of q ends it, with this status.
EndsWith(q, code) ==
    /\ StepOf(q)
    /\ \A q2 \in reqs' : q2.n # q.n
    /\ resp' = Response(q, code)
Ends(q) == StepOf(q) /\ \A q2 \in reqs' : q2.n # q.n

\* C1: a sign request changes the persisted record only in its save step, the
\* step that follows a successful write of the new PDF bytes; a sign request whose
\* file write fails ends in an error (500) and its steps leave every persisted
\* record as it was.
C1_RecordUpdatedOnlyAfterWrite ==
    [][ /\ \A q \in reqs :
              (q.op = "sign" /\ StepOf(q) /\ docs' # docs) => q.pc = "save"
        /\ \A q \in reqs :
              (q.op = "sign" /\ q.pc = "write" /\ StepOf(q) /\ ~GoesTo(q, "save"))
                 => (EndsWith(q, 500) /\ docs' = docs)
        /\ \A q \in reqs :
              (q.op = "sign" /\ q.pc = "write" /\ GoesTo(q, "save"))
                 => \E p \in DOMAIN files' : files'[p] = q.pdf
        /\ (Arrival /\ TheArrived.op = "sign") => docs' = docs
      ]_vars

\* A sign request ended with 500 on a failed write that left a truncated file, and
\* the record it was to sign is still pending.
C1_Witness ==
    /\ resp.op = "sign" /\ resp.status = 500
    /\ resp.id \in DOMAIN docs
    /\ docs[resp.id].status = "pending"
    /\ \E p \in DOMAIN files : ~files[p].ok

\* C2: a successful write of a sign request leaves every file a record points to
\* in place with the bytes it had: it writes only where no record points.
C2_SignNeverOverwritesCurrentFile ==
    [][ \A q \in reqs :
          (q.op = "sign" /\ q.pc = "write" /\ GoesTo(q, "save"))
             => \A d \in DOMAIN docs :
                    docs[d].filePath \in DOMAIN files
                       => /\ docs[d].filePath \in DOMAIN files'
                          /\ files'[docs[d].filePath] = files[docs[d].filePath]
      ]_vars

\* C3: a well-formed sign request on a stored document is answered Forbidden (403)
\* exactly when the actor is neither the owner nor holds a view_and_sign grant, and
\* a Forbidden sign request changes no file and no record.
C3_SignAccessCheck ==
    [][ (Arrival /\ TheArrived.op = "sign" /\ TheArrived.id \in DOMAIN docs
           /\ ~AnsweredAtOnce(400))
          => /\ AnsweredAtOnce(403)
                  <=> Role(docs[TheArrived.id], TheArrived.actor)
                          \notin {"Owner", "SharedSign"}
             /\ AnsweredAtOnce(403) => (files' = files /\ docs' = docs)
      ]_vars

\* A sign request of an actor who holds only a view grant was answered Forbidden.
C3_Witness ==
    /\ resp.op = "sign" /\ resp.status = 403
    /\ resp.id \in DOMAIN docs
    /\ Role(docs[resp.id], resp.actor) = "SharedView"

OwnerOps == {"delete", "update", "share"}

\* C4: a delete, update or share request on a stored document by an actor who is
\* not its owner is answered Forbidden (403) at once and changes no record, no
\* grant and no file; only the owner's request goes on to change anything.
C4_OwnerOnlyOperations ==
    [][ /\ (Arrival /\ TheArrived.op \in OwnerOps /\ TheArrived.id \in DOMAIN docs
              /\ Owner(docs[TheArrived.id]) # TheArrived.actor)
             => (AnsweredAtOnce(403) /\ docs' = docs /\ files' = files)
        /\ \A q \in reqs :
              (q.op \in OwnerOps /\ StepOf(q) /\ (docs' # docs \/ files' # files))
                 => Owner(q.orig) = q.actor
      ]_vars

\* A delete, update or share request of an actor holding a view_and_sign grant
\* was answered Forbidden.
C4_Witness ==
    /\ resp.op \in OwnerOps /\ resp.status = 403
    /\ resp.id \in DOMAIN docs
    /\ Role(docs[resp.id], resp.actor) = "SharedSign"

ReadOps == {"get", "view", "content", "download"}

\* C5: a read request (metadata, view, content, download) on a stored document
\* succeeds (200) exactly when the actor is the owner or holds a share grant of
\* either permission; any other actor is answered Forbidden (403).
C5_ReadSucceedsIffGranted ==
    [][ /\ (Arrival /\ TheArrived.op \in ReadOps /\ TheArrived.id \in DOMAIN docs)
             => LET granted == Role(docs[TheArrived.id], TheArrived.actor) # "Denied"
                IN /\ ~granted => AnsweredAtOnce(403)
                   /\ granted => (reqs' # reqs \/ AnsweredAtOnce(200))
        /\ \A q \in reqs :
              (q.op \in ReadOps /\ Ends(q) /\ q.id \in DOMAIN docs) => EndsWith(q, 200)
      ]_vars

\* C6: the status of a stored record changes only along pending -> signed,
\* signed -> signed, signed -> reviewed, signed -> archived.
C6_StatusTransitions ==
    [][ \A d \in DOMAIN docs \cap DOMAIN docs' :
          docs'[d].status # docs[d].status
             => <<docs[d].status, docs'[d].status>> \in
                   { <<"pending", "signed">>, <<"signed", "signed">>,
                     <<"signed", "reviewed">>, <<"signed", "archived">> }
      ]_vars

\* C7: only the last step of a sign request, the save that follows the draw and the
\* file write, makes the status of a record signed.
C7_SignedOnlyBySign ==
    [][ \A d \in DOMAIN docs' :
          (docs'[d].status = "signed" /\ (d \notin DOMAIN docs \/ docs[d].status # "signed"))
             => \E q \in reqs :
                   q.op = "sign" /\ q.pc = "save" /\ q.id = d /\ EndsWith(q, 200)
      ]_vars

\* C8: in every state the filePath of every stored record names a stored file.
C8_FilePathNamesAFile ==
    \A d \in DOMAIN docs : docs[d].filePath \in DOMAIN files

\* The record carries an earlier signature of actor a.
SignedBefore(doc, a) ==
    IF variant = "js"
    THEN \E i \in 1..Len(doc.signedBy) : doc.signedBy[i].user = a
    ELSE doc.lastSignedAt # 0 /\ doc.user = a

EntriesOf(doc, a) == {i \in 1..Len(Signers(doc)) : Signers(doc)[i].user = a}

\* C9: when a sign request of an actor whose earlier signature the loaded record
\* already carries succeeds, the record then holds exactly one SignatureEntry of
\* that actor, the entries of the other actors are as they were, and the file
\* pointer is a new location.
C9_ResignUpdatesInPlace ==
    [][ \A q \in reqs :
          (q.op = "sign" /\ q.pc = "save" /\ EndsWith(q, 200) /\ SignedBefore(q.orig, q.actor)
             /\ docs[q.id] = q.orig)
             => /\ Cardinality(EntriesOf(docs'[q.id], q.actor)) = 1
                /\ \A i \in 1..Len(Signers(docs[q.id])) :
                      Signers(docs[q.id])[i].user # q.actor
                         => /\ i <= Len(Signers(docs'[q.id]))
                            /\ Signers(docs'[q.id])[i] = Signers(docs[q.id])[i]
                /\ docs'[q.id].filePath # docs[q.id].filePath
      ]_vars

\* The signature payload a sign request submits.
Payload(q) == IF variant = "js" THEN q.body.signature.bytes ELSE q.body.signatureData.bytes

\* C10: a successful sign request leaves the stored record with status signed,
\* filePath and fileName those of the version it wrote, lastSignedAt the time of
\* the operation, and a SignatureEntry of the actor holding the submitted payload.
C10_SignEffectsTogether ==
    [][ \A q \in reqs :
          (q.op = "sign" /\ q.pc = "save" /\ EndsWith(q, 200))
             => /\ docs'[q.id].status = "signed"
                /\ docs'[q.id].filePath = q.doc.filePath
                /\ docs'[q.id].fileName = q.doc.fileName
                /\ LastSignedAt(docs'[q.id]) \in 1..now
                /\ \E i \in EntriesOf(docs'[q.id], q.actor) :
                      Signers(docs'[q.id])[i].signatureImage = Payload(q)
      ]_vars

\* The grants of a record that name grantee g.
GrantsOf(doc, g) == {i \in 1..Len(Grants(doc)) : Grants(doc)[i].user = g}

\* C11: when a share request succeeds on a record whose grants are those it
\* loaded (no other share request committed in between: sequential execution) and
\* which held at most one grant per grantee, the record then holds exactly one
\* grant of the request's grantee, carrying the requested permission, at most one
\* grant of every grantee, and the grants of the other grantees are as they were.
C11_OneGrantPerGrantee ==
    [][ \A q \in reqs :
          (q.op = "share" /\ q.pc = "save" /\ EndsWith(q, 200)
             /\ Grants(docs[q.id]) = Grants(q.orig)
             /\ \A g \in Users : Cardinality(GrantsOf(docs[q.id], g)) <= 1)
             => LET before == docs[q.id]
                    after == docs'[q.id]
                    g == q.body.shareWithEmail
                IN /\ Cardinality(GrantsOf(after, g)) = 1
                   /\ \A i \in GrantsOf(after, g) :
                          Grants(after)[i].permission = q.body.permission
                   /\ \A h \in Users : Cardinality(GrantsOf(after, h)) <= 1
                   /\ \A i \in 1..Len(Grants(before)) :
                          Grants(before)[i].user # g
                             => /\ i <= Len(Grants(after))
                                /\ Grants(after)[i] = Grants(before)[i]
                   /\ \A i \in 1..Len(Grants(after)) :
                          Grants(after)[i].user # g
                             => /\ i <= Len(Grants(before))
                                /\ Grants(after)[i] = Grants(before)[i]
      ]_vars

\* A second share request for the same grantee succeeded: the record holds the
\* single grant of bob, now view_and_sign, and its array was assigned once (the
\* push made __v 1, the assignment 2).
C11_Witness ==
    /\ resp.op = "share" /\ resp.status = 200
    /\ resp.id \in DOMAIN docs
    /\ variant = "js"
    /\ docs[resp.id].v >= 2
    /\ docs[resp.id].sharedWith = << [user |-> "bob", permission |-> "view_and_sign"] >>

\* ----- the error taxonomy of the specification (spec.md, section 7), as
\* properties of a sign request's body
SignatureOf(body) == IF variant = "js" THEN body.signature ELSE body.signatureData
IsImage(body) == variant = "js" \/ body.signatureType \in {"draw", "upload"}
MissingField(body) ==
    \/ ~SignatureOf(body).str
    \/ /\ variant = "ts"
       /\ \/ ~body.signaturePosition.typed
          \/ ~body.pdfPageDimensions.typed
          \/ body.pdfPageDimensions.width <= 0
          \/ body.pdfPageDimensions.height <= 0
          \/ body.pageNumber < 1
          \/ body.signatureType \notin {"draw", "upload", "text"}
InvalidPayload(body) ==
    /\ IsImage(body)
    /\ SignatureOf(body).scheme # "data:image/" \/ ~SignatureOf(body).decodes
UnsupportedFormat(body) ==
    /\ IsImage(body)
    /\ \/ SignatureOf(body).mime \notin {"png", "jpeg", "jpg"}
       \/ variant = "ts" /\ body.signatureFileExtension \notin {"png", "jpeg", "jpg"}
\* The page the request names is not a page of the PDF it is about to read.
PageOutOfRange(q) ==
    /\ variant = "ts" /\ q.pc = "read"
    /\ q.doc.filePath \in DOMAIN files
    /\ files[q.doc.filePath].ok
    /\ q.body.pageNumber \notin 1..files[q.doc.filePath].pages

\* C12: the step that receives a sign request changes no record and no file, and
\* every later step of a sign request whose body has a missing field, an invalid
\* payload or an unsupported format, or names a page the PDF does not have, ends
\* the request with an error and changes no record and no file.
C12_ValidationErrorChangesNothing ==
    [][ /\ (Arrival /\ TheArrived.op = "sign") => (docs' = docs /\ files' = files)
        /\ \A q \in reqs :
              (q.op = "sign" /\ StepOf(q)
                 /\ (MissingField(q.body) \/ InvalidPayload(q.body)
                        \/ UnsupportedFormat(q.body) \/ PageOutOfRange(q)))
                 => /\ Ends(q) /\ resp'.status \in {400, 500}
                    /\ docs' = docs /\ files' = files
      ]_vars

\* The owner's sign request was rejected (400) and the store holds the pending
\* record and the uploaded file, nothing else.
C12_Witness ==
    /\ variant = "ts"
    /\ resp.op = "sign" /\ resp.status = 400
    /\ resp.id \in DOMAIN docs
    /\ docs[resp.id].user = resp.actor
    /\ docs[resp.id].status = "pending"
    /\ DOMAIN files = {docs[resp.id].filePath}

\* The record's status and file pointer are the same after the step.
SameStatusAndPointer(id) ==
    /\ id \in DOMAIN docs'
    /\ docs'[id].status = docs[id].status
    /\ docs'[id].filePath = docs[id].filePath

\* C13: a sign request for an image whose declared encoding (the file extension
\* or the prefix of the data URL) is not PNG or JPEG, on a stored document the
\* actor may sign, otherwise well-formed, is rejected as UnsupportedFormat (400),
\* at once or at a later step, and the record's status and file pointer are the
\* same after its steps as before.
C13_UnsupportedFormatRejected ==
    [][ /\ \A a \in Users, id \in DocIds, b \in SignBodiesTs :
              (applySignature_find(a, id, b) /\ id \in DOMAIN docs
                 /\ Role(docs[id], a) \in {"Owner", "SharedSign"}
                 /\ UnsupportedFormat(b) /\ ~MissingField(b))
                 => /\ reqs' = reqs => resp'.status = 400
                    /\ SameStatusAndPointer(id)
        /\ \A a \in Users, id \in DocIds, b \in SignBodiesJs :
              (applySignatures_find(a, id, b) /\ id \in DOMAIN docs
                 /\ Role(docs[id], a) \in {"Owner", "SharedSign"}
                 /\ UnsupportedFormat(b) /\ ~MissingField(b))
                 => /\ reqs' = reqs => resp'.status = 400
                    /\ SameStatusAndPointer(id)
        /\ \A q \in reqs :
              (q.op = "sign" /\ StepOf(q) /\ q.id \in DOMAIN docs
                 /\ UnsupportedFormat(q.body))
                 => (EndsWith(q, 400) /\ SameStatusAndPointer(q.id))
      ]_vars

\* The sign requests whose signature this step draws: they hold the drawn PDF
\* after the step and did not before.
JustDrawn ==
    {q2 \in reqs' : /\ q2.op = "sign" /\ q2.pc = "write"
                    /\ \A q \in reqs : q.n = q2.n => q.pc # "write"}
\* What the step drew for q2: the last entry of the page content.
DrawnEntry(q2) == q2.pdf.sigs[Len(q2.pdf.sigs)]

\* C14: a sign request that names a page the current PDF does not have ends with
\* PageOutOfRange (400) and changes no file and no record; a signature that is
\* drawn is drawn on the page the request names, a page of the PDF, and the rest
\* of the content is as read.
C14_PageNumber ==
    [][ /\ \A q \in reqs :
              (q.op = "sign" /\ StepOf(q) /\ PageOutOfRange(q))
                 => (EndsWith(q, 400) /\ files' = files /\ docs' = docs)
        /\ \A q2 \in JustDrawn :
              /\ q2.body.pageNumber \in 1..q2.pdf.pages
              /\ DrawnEntry(q2).page = q2.body.pageNumber
              /\ SubSeq(q2.pdf.sigs, 1, Len(q2.pdf.sigs) - 1)
                    = files[q2.doc.filePath].sigs
      ]_vars

\* C15: a sign request of applySignature whose body has a missing field, an
\* invalid payload or an unsupported format is rejected by the step that receives
\* it: it never goes on to the step that reads the document's PDF file.
C15_RejectedBeforeFileIO ==
    [][ \A a \in Users, id \in DocIds, b \in SignBodiesTs :
          (applySignature_find(a, id, b)
             /\ (MissingField(b) \/ InvalidPayload(b) \/ UnsupportedFormat(b)))
             => /\ reqs' = reqs
                /\ resp'.op = "sign" /\ resp'.status # 200
      ]_vars

\* C16: when a sign request of documentController.ts commits on a record whose
\* file pointer another sign request has moved since it loaded the record (the two
\* interleaved; both read the version the record pointed to before), both new
\* version files exist under different names, the record's pointer is the version
\* of the request that commits now, and that file holds the prior version's content
\* plus this request's signature only.
C16_LastCommitWins ==
    [][ \A q \in reqs :
          (variant = "ts" /\ q.op = "sign" /\ q.pc = "save" /\ EndsWith(q, 200)
             /\ docs[q.id].filePath # q.orig.filePath
             /\ q.orig.filePath \in DOMAIN files)
             => LET other == docs[q.id].filePath
                    mine == q.doc.filePath
                IN /\ docs'[q.id].filePath = mine
                   /\ mine # other
                   /\ mine \in DOMAIN files' /\ other \in DOMAIN files'
                   /\ files'[mine] = DrawSignature(files[q.orig.filePath], q.body)
      ]_vars

\* C17: a step that ends a sign request in failure leaves every record and the
\* bytes of every file as they were; a sign request changes a record only in the
\* step that ends it in success; and the record that step leaves has all the
\* effects of the sign: in documentController.ts status signed together with the
\* pointer to the new file.
C17_SignAllOrNothing ==
    [][ \A q \in reqs :
          /\ (q.op = "sign" /\ Ends(q) /\ resp'.status # 200)
                => /\ docs' = docs
                   /\ \A p \in DOMAIN files :
                         p \in DOMAIN files' /\ files'[p] = files[p]
          /\ (q.op = "sign" /\ StepOf(q) /\ docs' # docs) => EndsWith(q, 200)
          /\ (variant = "ts" /\ q.op = "sign" /\ EndsWith(q, 200))
                => /\ docs'[q.id].status = "signed"
                   /\ docs'[q.id].filePath = q.doc.filePath
      ]_vars

\* C18: in applySignature, whenever the drawn artifact is no larger than the
\* page, the x given to the draw call lies in [0, pageWidth - width] and the y in
\* [0, pageHeight - height], for every position the client sent.
C18_DrawnCoordinatesClamped ==
    [][ \A q2 \in JustDrawn :
          variant = "ts"
             => LET e == DrawnEntry(q2)
                    pageWidth == Num(q2.pdf.width)
                    pageHeight == Num(q2.pdf.height)
                IN (Leq(e.width, pageWidth) /\ Leq(e.height, pageHeight))
                      => /\ Leq(Num(0), e.x)
                         /\ Leq(e.x, Sub(pageWidth, e.width))
                         /\ Leq(Num(0), e.y)
                         /\ Leq(e.y, Sub(pageHeight, e.height))
      ]_vars

\* The size at which the handler takes the signature to be displayed on the
\* client's page: frontendDisplayWidth by frontendDisplayHeight for an image, the
\* font's measure of the text for a typed signature.
DisplaySize(body) ==
    IF body.signatureType = "text"
    THEN [width |-> TextWidth(body.signatureData.bytes), height |-> TextHeight]
    ELSE LET image == ImageSize(body.signatureData.bytes)
         IN [width |-> Num(frontendDisplayWidth),
             height |-> Mul(Num(image.height),
                            Div(Num(frontendDisplayWidth), Num(image.width)))]

\* C19: when the rectangle of a placement, its position and display size on the
\* client's page, lies inside [0, viewportWidth] x [0, viewportHeight], the
\* rectangle at which applySignature draws the image or the text lies inside
\* [0, pdfWidth] x [0, pdfHeight].
C19_InsideViewportInsidePage ==
    [][ \A q2 \in JustDrawn :
          variant = "ts"
             => LET e == DrawnEntry(q2)
                    at == q2.body.signaturePosition
                    view == q2.body.pdfPageDimensions
                    size == DisplaySize(q2.body)
                IN (/\ at.x >= 0 /\ at.y >= 0
                    /\ Leq(Plus(Num(at.x), size.width), Num(view.width))
                    /\ Leq(Plus(Num(at.y), size.height), Num(view.height)))
                      => /\ Leq(Num(0), e.x)
                         /\ Leq(Plus(e.x, e.width), Num(q2.pdf.width))
                         /\ Leq(Num(0), e.y)
                         /\ Leq(Plus(e.y, e.height), Num(q2.pdf.height))
      ]_vars

\* C20: the placement applySignature draws at is scaleX = pdfWidth /
\* viewportWidth, scaleY = pdfHeight / viewportHeight, x = viewportX * scaleX,
\* width = displayWidth * scaleX, height = displayHeight * scaleY, y = pdfHeight -
\* viewportY * scaleY - height; with equal viewport and page sizes y = pdfHeight -
\* viewportY - height; and a 150 x 75 image at (50, 100) of a 300 x 400 viewport
\* is drawn on a 612 x 792 page at x 102, y 445.5, 306 wide and 148.5 high.
C20_ReferenceMapping ==
    [][ \A q2 \in JustDrawn :
          variant = "ts"
             => LET e == DrawnEntry(q2)
                    at == q2.body.signaturePosition
                    view == q2.body.pdfPageDimensions
                    size == DisplaySize(q2.body)
                    scaleX == Div(Num(q2.pdf.width), Num(view.width))
                    scaleY == Div(Num(q2.pdf.height), Num(view.height))
                IN /\ e.x = Mul(Num(at.x), scaleX)
                   /\ e.width = Mul(size.width, scaleX)
                   /\ e.height = Mul(size.height, scaleY)
                   /\ e.y = Sub(Sub(Num(q2.pdf.height), Mul(Num(at.y), scaleY)),
                                e.height)
                   /\ (view.width = q2.pdf.width /\ view.height = q2.pdf.height)
                         => e.y = Sub(Sub(Num(q2.pdf.height), Num(at.y)), e.height)
                   /\ (/\ q2.pdf.width = 612 /\ q2.pdf.height = 792
                       /\ view.width = 300 /\ view.height = 400
                       /\ size.width = Num(150) /\ size.height = Num(75)
                       /\ at.x = 50 /\ at.y = 100)
                         => /\ e.width = Num(306) /\ e.height = Frac(297, 2)
                            /\ e.x = Num(102) /\ e.y = Frac(891, 2)
      ]_vars

\* C21: when the image or text applySignature places is wider than the page, the
\* clamp leaves finalX = 0, when it is taller, finalY = 0, whatever the position,
\* and the handler goes on to write the file.
C21_InvertedClampYieldsZero ==
    \A q \in reqs :
       (variant = "ts" /\ q.op = "sign" /\ q.pc = "write")
          => LET e == q.pdf.sigs[Len(q.pdf.sigs)]
             IN /\ ~Leq(e.width, Num(q.pdf.width)) => q.final.x = Num(0)
                /\ ~Leq(e.height, Num(q.pdf.height)) => q.final.y = Num(0)

C21_Witness ==
    \E q \in reqs :
       /\ variant = "ts" /\ q.op = "sign" /\ q.pc = "write"
       /\ LET e == q.pdf.sigs[Len(q.pdf.sigs)]
          IN /\ ~Leq(e.width, Num(q.pdf.width))
             /\ ~Leq(e.height, Num(q.pdf.height))
             /\ q.body.signaturePosition.y < 0
             /\ q.final.x = Num(0) /\ q.final.y = Num(0)

\* C22: however many times a document has been signed, the name a successful
\* sign gives the new file is the base of the record's originalName, the marker
\* "_signed_" once, a token and ".pdf", whatever the current fileName is, and
\* the file is written in signed_documents, not in uploads.
C22_NameFromOriginalName ==
    [][ \A q \in reqs :
          /\ (variant = "ts" /\ q.op = "sign" /\ q.pc = "write" /\ StepOf(q))
                => \A p \in DOMAIN files' :
                      (p \notin DOMAIN files \/ files'[p] # files[p])
                         => /\ p.dir = SIGNED_DOCS_DIR
                            /\ p.name.base = q.orig.originalName.base
                            /\ p.name.tag = "_signed_" /\ p.name.ext = ".pdf"
          /\ (variant = "ts" /\ q.op = "sign" /\ EndsWith(q, 200))
                => LET d == docs'[q.id]
                   IN /\ d.fileName.base = docs[q.id].originalName.base
                      /\ d.fileName.tag = "_signed_" /\ d.fileName.ext = ".pdf"
                      /\ d.filePath = join(SIGNED_DOCS_DIR, d.fileName)
      ]_vars

C22_Witness ==
    \E id \in DOMAIN docs :
       /\ variant = "ts"
       /\ resp = [op |-> "sign", actor |-> docs[id].user, id |-> id, status |-> 200]
       /\ docs[id].filePath \in DOMAIN files
       /\ docs[id].fileName.tag = "_signed_"
       /\ files[docs[id].filePath].ok
       /\ Len(files[docs[id].filePath].sigs) >= 2

\* The operations that take a document id, other than sign (whose body is checked
\* first).
IdOps == {"get", "view", "content", "download", "update", "share", "delete"}
\* A sign body that passes every check on the body.
WellFormed(body) ==
    ~MissingField(body) /\ ~InvalidPayload(body) /\ ~UnsupportedFormat(body)

C24_SignerMaySignAtCommit ==
    [][ \A q \in reqs :
          (q.op = "sign" /\ EndsWith(q, 200) /\ Signers(docs'[q.id]) # Signers(docs[q.id]))
             => Role(docs[q.id], q.actor) \in {"Owner", "SharedSign"}
      ]_vars

\* The MIME type of a record; the schema of the sharing controller has no such
\* field.
FileType(doc) == IF variant = "ts" THEN doc.fileType ELSE ""

\* C25: no step changes the owner, the originalName or the MIME type of a stored
\* record: a record that is stored before and after a step has the same three
\* values.
C25_ImmutableFields ==
    [][ \A id \in DOMAIN docs \cap DOMAIN docs' :
          /\ Owner(docs'[id]) = Owner(docs[id])
          /\ docs'[id].originalName = docs[id].originalName
          /\ FileType(docs'[id]) = FileType(docs[id])
      ]_vars

C25_Witness ==
    /\ variant = "ts"
    /\ resp.op = "update" /\ resp.status = 200
    /\ resp.id \in DOMAIN docs
    /\ docs[resp.id].fileName.tag = "_signed_"
    /\ docs[resp.id].status = "archived"
    /\ Owner(docs[resp.id]) = "alice"
    /\ docs[resp.id].originalName \in OriginalNames
    /\ FileType(docs[resp.id]) = "application/pdf"

\* C26: a successful upload creates exactly one record, pending, owned by the
\* uploading actor and pointing at the file the upload stored; an upload that
\* fails creates none; and no two records ever point at the same file location.
C26_OneRecordPerFile ==
    [][ /\ (Arrival /\ TheArrived.op = "upload")
             => IF resp'.status = 201
                THEN \E id \in DOMAIN docs' \ DOMAIN docs :
                        /\ DOMAIN docs' = DOMAIN docs \cup {id}
                        /\ \A d \in DOMAIN docs : docs'[d] = docs[d]
                        /\ docs'[id].status = "pending"
                        /\ Owner(docs'[id]) = resp'.actor
                        /\ docs'[id].filePath \in DOMAIN files' \ DOMAIN files
                ELSE docs' = docs
        /\ \A i, j \in DOMAIN docs' :
              i # j => docs'[i].filePath # docs'[j].filePath
      ]_vars

\* C28: the file a sign request of applySignature writes is a new one: no sign
\* request writes to a location where a file already is, so two sign requests,
\* on one document or on two, one after the other or at the same time, never
\* write to the same location.
C28_SignsWriteDistinctFiles ==
    [][ \A q \in reqs :
          (variant = "ts" /\ q.op = "sign" /\ q.pc = "write" /\ GoesTo(q, "save"))
             => \A q2 \in reqs' : q2.n = q.n => q2.doc.filePath \notin DOMAIN files
      ]_vars

\* C27: the answer of the access check depends on the record's owner and grants
\* only: a get request on a stored record is let through exactly when the actor's
\* role on it is not Denied, a sign request is refused (403) exactly when the role
\* is neither Owner nor SharedSign, so that two checks of the same actor between
\* which owner and grants did not change agree; and the step that checks changes
\* no record and no file.
C27_AccessDecisionFromState ==
    [][ (Arrival /\ TheArrived.op \in {"get", "sign"} /\ TheArrived.id \in DOMAIN docs)
          => LET role == Role(docs[TheArrived.id], TheArrived.actor)
             IN /\ docs' = docs /\ files' = files
                /\ TheArrived.op = "get"
                      => AnsweredAtOnce(IF role = "Denied" THEN 403 ELSE 200)
                /\ TheArrived.op = "sign"
                      => /\ AnsweredAtOnce(403) => role \notin {"Owner", "SharedSign"}
                         /\ role \notin {"Owner", "SharedSign"}
                               => (AnsweredAtOnce(403) \/ AnsweredAtOnce(400))
      ]_vars

C27_Witness ==
    /\ variant = "js"
    /\ resp.op = "get" /\ resp.actor = "bob" /\ resp.status = 200
    /\ resp.id \in DOMAIN docs
    /\ Role(docs[resp.id], "bob") = "SharedView"
    /\ docs[resp.id].status = "signed"

\* The file locations the stored records point at.
Referenced == {docs[d].filePath : d \in DOMAIN docs}

\* C29: between the write of a sign request's new file and the commit of its
\* metadata the only effect is a file no record points at: the write step changes
\* no record and no file that a record points at, and a save step that fails
\* changes neither records nor files, so that a request that stops there leaves
\* every record with its previous status and pointer and the file it points at
\* with its bytes.
C29_OrphanFileOnly ==
    [][ \A q \in reqs :
          /\ (q.op = "sign" /\ q.pc = "write" /\ StepOf(q))
                => /\ docs' = docs
                   /\ \A p \in Referenced \cap DOMAIN files :
                         p \in DOMAIN files' /\ files'[p] = files[p]
          /\ (q.op = "sign" /\ q.pc = "save" /\ Ends(q) /\ resp'.status # 200)
                => (docs' = docs /\ files' = files)
      ]_vars

\* C30: when a sign request commits, also one that loaded the record before
\* another sign request of the same signer committed, the record's signer list
\* holds at most one entry of that signer.
C30_OneEntryPerSigner ==
    [][ \A q \in reqs :
          (q.op = "sign" /\ EndsWith(q, 200))
             => Cardinality(EntriesOf(docs'[q.id], q.actor)) <= 1
      ]_vars

\* C31: when a share request commits, also one that loaded the record before
\* another share request for the same grantee committed, the record's sharedWith
\* list holds at most one grant of that grantee.
C31_OneGrantAfterInterleaving ==
    [][ \A q \in reqs :
          (q.op = "share" /\ EndsWith(q, 200))
             => Cardinality(GrantsOf(docs'[q.id], q.body.shareWithEmail)) <= 1
      ]_vars

\* The role a grant with this permission gives.
RoleOfPermission(permission) ==
    IF permission = "view_and_sign" THEN "SharedSign" ELSE "SharedView"

\* C32: once a share request that re-shares a document to a grantee has
\* committed, the grantee's role is that of the new permission, and the requests
\* that arrive act on the role the store holds: a sign request of a grantee with
\* view is refused (403), the get request of a grantee is let through, and a
\* sign request of a grantee with view_and_sign is not refused.
C32_PermissionChangeTakesEffect ==
    [][ /\ \A q \in reqs :
              (q.op = "share" /\ EndsWith(q, 200)
                 /\ Role(docs[q.id], q.body.shareWithEmail) \in {"SharedSign", "SharedView"})
                 => Role(docs'[q.id], q.body.shareWithEmail)
                       = RoleOfPermission(q.body.permission)
        /\ (Arrival /\ TheArrived.op \in {"get", "sign"} /\ TheArrived.id \in DOMAIN docs)
              => LET role == Role(docs[TheArrived.id], TheArrived.actor)
                 IN /\ (role = "SharedView" /\ TheArrived.op = "sign")
                          => (AnsweredAtOnce(403) \/ AnsweredAtOnce(400))
                    /\ (role \in {"SharedView", "SharedSign"} /\ TheArrived.op = "get")
                          => AnsweredAtOnce(200)
                    /\ (role = "SharedSign" /\ TheArrived.op = "sign")
                          => ~AnsweredAtOnce(403)
      ]_vars

C34_DeleteRemovesRecord ==
    [][ /\ \A q \in reqs :
              /\ (q.op = "delete" /\ q.pc = "unlink" /\ StepOf(q))
                    => GoesTo(q, "deleteOne")
              /\ (q.op = "delete" /\ EndsWith(q, 200)) => q.id \notin DOMAIN docs'
              /\ (q.op = "delete" /\ StepOf(q))
                    => \A d \in DOMAIN docs \ {q.id} :
                          /\ d \in DOMAIN docs' /\ docs'[d] = docs[d]
                          /\ docs[d].filePath \in DOMAIN files
                                => /\ docs[d].filePath \in DOMAIN files'
                                   /\ files'[docs[d].filePath] = files[docs[d].filePath]
        /\ \A id \in DOMAIN docs' \ DOMAIN docs : id > nextId
        /\ (Arrival /\ TheArrived.op \in IdOps \cup {"sign"}
               /\ TheArrived.id \in (1..nextId) \ DOMAIN docs)
              => \/ AnsweredAtOnce(404)
                 \/ TheArrived.op = "sign" /\ AnsweredAtOnce(400)
      ]_vars

\* C35: the save of a sign request that runs when a delete has removed the record
\* stores no record and ends the request in an error, and a record that has been
\* removed is absent from the store ever after.
C35_NoResurrection ==
    [][ /\ \A q \in reqs :
              (q.op = "sign" /\ q.pc = "save" /\ StepOf(q) /\ q.id \notin DOMAIN docs)
                 => /\ q.id \notin DOMAIN docs'
                    /\ Ends(q) /\ resp'.status \notin {0, 200}
        /\ \A id \in (1..nextId) \ DOMAIN docs : id \notin DOMAIN docs'
      ]_vars

C35_Witness ==
    /\ variant = "ts"
    /\ resp.op = "delete" /\ resp.status = 200
    /\ \E q \in reqs :
          /\ q.op = "sign" /\ q.pc = "save"
          /\ q.id = resp.id /\ q.id \notin DOMAIN docs
          /\ q.doc.filePath \in DOMAIN files

\* C36: a request that is not authenticated (no token, a token that fails
\* verification, a token whose user no longer exists) is answered with an error
\* at once and changes no record and no file; a request of an account is handed
\* to its handler once.
C36_UnauthenticatedChangesNothing ==
    [][ /\ (Arrival /\ TheArrived.actor = Nobody)
             => /\ reqs' = reqs
                /\ resp'.status \notin {0, 200, 201}
                /\ docs' = docs /\ files' = files
        /\ (Arrival /\ TheArrived.actor \in Users)
             => \/ reqs' = reqs
                \/ Cardinality(reqs' \ reqs) = 1 /\ resp' = resp
      ]_vars

\* s is the beginning of t.
IsPrefix(s, t) == Len(s) <= Len(t) /\ \A i \in 1..Len(s) : t[i] = s[i]

\* C37: with the sign requests on each document sent one after the other, a
\* sign request of applySignature draws on the content of the file the record
\* points at and commits the pointer to the version it wrote, and its
\* successful write takes no signature away from the file any record points
\* at: so after n successful requests the current version of a document holds
\* the n signatures.
C37_VersionsAccumulateSignatures ==
    [][ \A q \in reqs :
          (variant = "ts" /\ q.op = "sign")
             => /\ (q.pc = "read" /\ GoesTo(q, "write"))
                      => \A q2 \in reqs' :
                            q2.n = q.n
                               => q2.pdf = DrawSignature(files[docs[q.id].filePath],
                                                         q.body)
                /\ (q.pc = "write" /\ GoesTo(q, "save"))
                      => \A d \in DOMAIN docs :
                            docs[d].filePath \in DOMAIN files
                               => /\ docs[d].filePath \in DOMAIN files'
                                  /\ IsPrefix(files[docs[d].filePath].sigs,
                                              files'[docs[d].filePath].sigs)
                /\ EndsWith(q, 200)
                      => LET cur == docs'[q.id].filePath
                         IN /\ cur = q.doc.filePath
                            /\ cur \in DOMAIN files' /\ files'[cur] = files[cur]
      ]_vars

====
